---- MODULE Spec2Model ----
(***************************************************************************)
(* A model of seller.py: synchronisation of a supplier's inventory export  *)
(* with an Ozon seller catalogue.                                          *)
(*                                                                         *)
(* Text cells of the spreadsheet whose content the code inspects (the      *)
(* quantity "Количество" and the price "Цена") are sequences of one-       *)
(* character strings, so that splitting, filtering and parsing are         *)
(* computed character by character.  The article code "Код" is an atomic   *)
(* string: the code only converts it with str() and compares it.  The      *)
(* record fields Kod, Kolichestvo and Tsena stand for the spreadsheet      *)
(* columns "Код", "Количество" and "Цена".                                 *)
(***************************************************************************)
EXTENDS Integers, Sequences, FiniteSets, TLC

VARIABLES
    \* main(): one run of the orchestrator
    pc, ozon_catalog, supplier_file, offer_ids, watch_remnants,
    stocks, prices, todo, calls, caught,
    \* create_stocks / create_prices called on one shared offer_ids list
    b_watch_remnants, b_catalog, b_offer_ids, b_log,
    \* divide
    d_lst, d_n, d_pc, d_chunks,
    \* price_conversion
    p_price, p_pc, p_result,
    \* get_offer_ids
    g_pc, g_last_id, g_product_list, g_total, g_log, g_offer_ids

mainVars == <<pc, ozon_catalog, supplier_file, offer_ids, watch_remnants,
              stocks, prices, todo, calls, caught>>
buildVars == <<b_watch_remnants, b_catalog, b_offer_ids, b_log>>
divideVars == <<d_lst, d_n, d_pc, d_chunks>>
priceVars == <<p_price, p_pc, p_result>>
offersVars == <<g_pc, g_last_id, g_product_list, g_total, g_log, g_offer_ids>>
vars == <<mainVars, buildVars, divideVars, priceVars, offersVars>>

(***************************************************************************)
(* Bounds of the model.                                                    *)
(***************************************************************************)
MaxRows == 2
MaxLen == 4
MaxChunk == 3
MaxPriceLen == 3
MaxCalls == 2
MaxPage == 2
MaxRequests == 3
MaxTotal == 3
ScenarioRows == 1500

(***************************************************************************)
(* Program constants.                                                      *)
(***************************************************************************)
StockChunk == 100
MainPriceChunk == 900
OverStock == 100
ReserveStock == 0

(***************************************************************************)
(* Sequence helpers: Python list and str operations.                       *)
(***************************************************************************)
Range(s) == {s[i] : i \in 1..Len(s)}

Min(a, b) == IF a < b THEN a ELSE b

\* x in lst
In(x, lst) == \E k \in 1..Len(lst) : lst[k] = x

\* the index of the first occurrence of x in lst (x is in lst)
IndexOf(x, lst) == CHOOSE k \in 1..Len(lst) : lst[k] = x /\ \A j \in 1..(k - 1) : lst[j] # x

\* lst[a:b] for 0 <= a <= b
Slice(lst, a, b) == SubSeq(lst, a + 1, Min(b, Len(lst)))

RECURSIVE Concat(_)
Concat(ss) == IF ss = <<>> THEN <<>> ELSE Head(ss) \o Concat(Tail(ss))

\* the number of positions of s that hold x
Count(x, s) == Cardinality({i \in 1..Len(s) : s[i] = x})

NoDuplicates(s) == Cardinality(Range(s)) = Len(s)

\* ceil(a / b) for b > 0
CeilDiv(a, b) == (a + b - 1) \div b

\* str(x) of a text value is the value itself
str(x) == x

Digit == {"0", "1", "2", "3", "4", "5", "6", "7", "8", "9"}

DigitValue(c) == CASE c = "0" -> 0 [] c = "1" -> 1 [] c = "2" -> 2 [] c = "3" -> 3
                   [] c = "4" -> 4 [] c = "5" -> 5 [] c = "6" -> 6 [] c = "7" -> 7
                   [] c = "8" -> 8 [] c = "9" -> 9

RECURSIVE DecimalValue(_)
DecimalValue(s) == IF s = <<>> THEN 0
                   ELSE 10 * DecimalValue(SubSeq(s, 1, Len(s) - 1)) + DigitValue(s[Len(s)])

\* int(text): the part of Python's grammar the inventory exercises, an
\* optional sign followed by one or more decimal digits; anything else
\* raises ValueError.
IsIntLiteral(s) ==
    LET body == IF s # <<>> /\ s[1] \in {"+", "-"} THEN Tail(s) ELSE s
    IN body # <<>> /\ \A i \in 1..Len(body) : body[i] \in Digit

int(s) == IF s[1] = "-" THEN 0 - DecimalValue(Tail(s))
          ELSE IF s[1] = "+" THEN DecimalValue(Tail(s))
          ELSE DecimalValue(s)

(***************************************************************************)
(* price_conversion                                                        *)
(***************************************************************************)
\* price.split(".")[0]: the text before the first period, all of it if
\* there is none
SplitFirst(price) ==
    IF In(".", price) THEN SubSeq(price, 1, IndexOf(".", price) - 1) ELSE price

price_conversion(price) == SelectSeq(SplitFirst(price), LAMBDA c : c \in Digit)

(***************************************************************************)
(* divide: the chunks list(divide(lst, n)) holds, for n > 0                *)
(***************************************************************************)
RECURSIVE DivideFrom(_, _, _)
DivideFrom(lst, n, i) ==
    IF i >= Len(lst) THEN <<>>
    ELSE <<Slice(lst, i, i + n)>> \o DivideFrom(lst, n, i + n)

\* as if the loop were range(0, len(lst) + 1, n)
RECURSIVE DivideThrough(_, _, _)
DivideThrough(lst, n, i) ==
    IF i > Len(lst) THEN <<>>
    ELSE <<Slice(lst, i, i + n)>> \o DivideThrough(lst, n, i + n)

divide_through_len(lst, n) == DivideThrough(lst, n, 0)

divide(lst, n) == DivideFrom(lst, n, 0)

(***************************************************************************)
(* create_stocks                                                           *)
(***************************************************************************)
GT10 == <<">", "1", "0">>
ONE == <<"1">>

\* offer_ids.remove(x): drops the first occurrence of x, in place
remove_nothing(lst, x) == lst

remove(lst, x) ==
    LET k == IndexOf(x, lst) IN SubSeq(lst, 1, k - 1) \o SubSeq(lst, k + 1, Len(lst))

\* the quantity policy of the matched row; int() raises ValueError on a
\* count that is neither a sentinel nor an integer literal
CountRaises(count) == count # GT10 /\ count # ONE /\ ~IsIntLiteral(count)

stock_of_literal_one(count) ==
    IF count = GT10 THEN OverStock
    ELSE int(count)

stock_of(count) ==
    IF count = GT10 THEN OverStock
    ELSE IF count = ONE THEN ReserveStock
    ELSE int(count)

\* one iteration of the first loop; acc holds the local list stocks, the
\* caller's list offer_ids and whether an exception has left the function
StocksBody(acc, watch) ==
    IF acc.raised THEN acc
    ELSE IF In(str(watch.Kod), acc.offer_ids)
    THEN LET count == str(watch.Kolichestvo) IN
         IF CountRaises(count) THEN [acc EXCEPT !.raised = TRUE]
         ELSE [raised |-> FALSE,
               stocks |-> Append(acc.stocks,
                                 [offer_id |-> str(watch.Kod), stock |-> stock_of(count)]),
               offer_ids |-> remove(acc.offer_ids, str(watch.Kod))]
    ELSE acc

\* for watch in watch_remnants[lo..hi], in order, until an exception leaves
\* the loop; the range is halved only to keep the evaluation shallow
RECURSIVE StocksLoop(_, _, _, _)
StocksLoop(rows, lo, hi, acc) ==
    IF acc.raised \/ lo > hi THEN acc
    ELSE IF lo = hi THEN StocksBody(acc, rows[lo])
    ELSE LET mid == (lo + hi) \div 2
         IN StocksLoop(rows, mid + 1, hi, StocksLoop(rows, lo, mid, acc))

\* the returned list (stocks), the caller's list after the call (offer_ids:
\* the parameter is the caller's list object) and whether ValueError left the
\* function
create_stocks(rows, ids) ==
    LET after == StocksLoop(rows, 1, Len(rows),
                            [raised |-> FALSE, stocks |-> <<>>, offer_ids |-> ids])
    IN IF after.raised
       THEN [raised |-> TRUE, stocks |-> <<>>, offer_ids |-> after.offer_ids]
       ELSE [raised |-> FALSE,
             stocks |-> after.stocks \o
                        [k \in 1..Len(after.offer_ids) |->
                            [offer_id |-> after.offer_ids[k], stock |-> 0]],
             offer_ids |-> after.offer_ids]

(***************************************************************************)
(* create_prices                                                           *)
(***************************************************************************)
PriceRecord(watch) ==
    [auto_action_enabled |-> "UNKNOWN",
     currency_code |-> "RUB",
     offer_id |-> str(watch.Kod),
     old_price |-> "0",
     price |-> price_conversion(watch.Tsena)]

\* the rows the loop appends a record for, in file order
Matching(rows, ids) == SelectSeq(rows, LAMBDA watch : In(str(watch.Kod), ids))

create_prices_every_row(rows, ids) == [k \in 1..Len(rows) |-> PriceRecord(rows[k])]

create_prices(rows, ids) ==
    LET matching == Matching(rows, ids)
    IN [k \in 1..Len(matching) |-> PriceRecord(matching[k])]

(***************************************************************************)
(* Input sets.                                                             *)
(***************************************************************************)
SeqsUpTo(S, n) == UNION {[1..k -> S] : k \in 0..n}

\* the subsequence of s at the positions in P
Pick(s, P) == SelectSeq([k \in 1..Len(s) |-> IF k \in P THEN <<s[k]>> ELSE <<>>],
                        LAMBDA x : x # <<>>)

SubSequences(s) == {Concat(Pick(s, P)) : P \in SUBSET (1..Len(s))}

\* the docstring's examples; the letters r, u, b stand for the Cyrillic
\* letters of the currency label, which are no ASCII digits either
Price1 == <<"5", "'", "9", "9", "0", ".", "0", "0", " ", "r", "u", "b", ".">>
Price2 == <<"1", "2", " ", "3", "4", "5", ",", "0", "0", " ", "r", "u", "b", ".">>
Price3 == <<"7", "5", "0">>

InventoryCodes == {"A", "B", "C"}
CatalogOrder == <<"A", "B", "C", "D">>
Counts == {GT10, ONE, <<"3">>, <<"2", "5">>, <<>>}

TsenaOf(code) == CASE code = "A" -> Price1 [] code = "B" -> Price2 [] OTHER -> Price3

Row(code, count) == [Kod |-> code, Kolichestvo |-> count, Tsena |-> TsenaOf(code)]

RowPool == {Row(code, count) : code \in InventoryCodes, count \in Counts}

ExampleInventory == <<Row("A", GT10), Row("B", ONE), Row("C", <<"3">>)>>

Inventories == SeqsUpTo(RowPool, MaxRows) \cup {ExampleInventory}
Catalogs == SubSequences(CatalogOrder)

PriceAlphabet == {"5", "0", "'", ".", " ", ","}
PriceTexts == SeqsUpTo(PriceAlphabet, MaxPriceLen) \cup {Price1, Price2, Price3}

DivideItems == {"a", "b", "c"}

(***************************************************************************)
(* Each specification runs one part of the program; the variables of the   *)
(* other parts rest.                                                       *)
(***************************************************************************)
MainRest ==
    /\ pc = "rest" /\ ozon_catalog = <<>> /\ supplier_file = <<>>
    /\ offer_ids = <<>> /\ watch_remnants = <<>> /\ stocks = <<>>
    /\ prices = <<>> /\ todo = <<>> /\ calls = <<>> /\ caught = "none"

BuildRest ==
    /\ b_watch_remnants = <<>> /\ b_catalog = <<>> /\ b_offer_ids = <<>>
    /\ b_log = <<>>

DivideRest == d_lst = <<>> /\ d_n = 1 /\ d_pc = "rest" /\ d_chunks = <<>>

PriceRest == p_price = <<>> /\ p_pc = "rest" /\ p_result = <<>>

OffersRest ==
    /\ g_pc = "rest" /\ g_last_id = "" /\ g_product_list = <<>> /\ g_total = 0
    /\ g_log = <<>> /\ g_offer_ids = <<>>

(***************************************************************************)
(* SpecPrice: price_conversion applied to a price text.                    *)
(***************************************************************************)
P_Init ==
    /\ p_price \in PriceTexts /\ p_pc = "call" /\ p_result = <<>>
    /\ MainRest /\ BuildRest /\ DivideRest /\ OffersRest

P_price_conversion ==
    /\ p_pc = "call"
    /\ p_result' = price_conversion(p_price)
    /\ p_pc' = "done"
    /\ UNCHANGED <<p_price, mainVars, buildVars, divideVars, offersVars>>

P_Next == P_price_conversion

SpecPrice == P_Init /\ [][P_Next]_vars

(***************************************************************************)
(* SpecDivide: list(divide(lst, n)) for a positive n.                      *)
(***************************************************************************)
D_Init ==
    /\ d_lst \in SeqsUpTo(DivideItems, MaxLen) /\ d_n \in 1..MaxChunk
    /\ d_pc = "call" /\ d_chunks = <<>>
    /\ MainRest /\ BuildRest /\ PriceRest /\ OffersRest

D_divide ==
    /\ d_pc = "call"
    /\ d_chunks' = divide(d_lst, d_n)
    /\ d_pc' = "done"
    /\ UNCHANGED <<d_lst, d_n, mainVars, buildVars, priceVars, offersVars>>

D_Next == D_divide

SpecDivide == D_Init /\ [][D_Next]_vars

(***************************************************************************)
(* SpecBuild: create_stocks and create_prices called, in any order, with   *)
(* the same inventory and the same offer_ids list object.                  *)
(***************************************************************************)
B_Init ==
    /\ b_watch_remnants \in Inventories
    /\ b_catalog \in Catalogs
    /\ b_offer_ids = b_catalog
    /\ b_log = <<>>
    /\ MainRest /\ DivideRest /\ PriceRest /\ OffersRest

B_create_stocks ==
    /\ Len(b_log) < MaxCalls
    /\ \E r \in {create_stocks(b_watch_remnants, b_offer_ids)} :
          /\ b_offer_ids' = r.offer_ids
          /\ b_log' = Append(b_log, [fn |-> "create_stocks", ids |-> b_offer_ids,
                                     raised |-> r.raised, result |-> r.stocks])
    /\ UNCHANGED <<b_watch_remnants, b_catalog, mainVars, divideVars, priceVars, offersVars>>

B_create_prices ==
    /\ Len(b_log) < MaxCalls
    /\ b_log' = Append(b_log, [fn |-> "create_prices", ids |-> b_offer_ids,
                               raised |-> FALSE,
                               result |-> create_prices(b_watch_remnants, b_offer_ids)])
    /\ UNCHANGED <<b_watch_remnants, b_catalog, b_offer_ids,
                   mainVars, divideVars, priceVars, offersVars>>

B_Next == B_create_stocks \/ B_create_prices

SpecBuild == B_Init /\ [][B_Next]_vars

(***************************************************************************)
(* Spec: one run of main().  The marketplace holds ozon_catalog and the    *)
(* supplier's file holds supplier_file; every network call may raise.      *)
(* calls is the sequence of the network calls made so far, each with the   *)
(* payload sent and whether it returned.                                   *)
(***************************************************************************)
Ids(n) == [i \in 1..n |-> ToString(i)]

CountCycle == <<GT10, ONE, <<"3">>, <<"2", "5">>>>

MainRows(m) == [i \in 1..m |-> Row(ToString(i), CountCycle[(i % Len(CountCycle)) + 1])]

MainSizes == {0, 1, StockChunk + 1, ScenarioRows}

\* a listing without repetitions, and a listing whose pages repeat every
\* item once (get_offer_ids does not deduplicate what the pages hold)
MainCatalogs == {Ids(n) : n \in MainSizes} \cup {Ids(n) \o Ids(n) : n \in MainSizes}

MainInventories == {MainRows(m) : m \in MainSizes}
                       \cup {<<Row("1", <<"3">>), Row("2", <<>>)>>}

NetErrors == {"ReadTimeout", "ConnectionError", "HTTPError"}

Call(fn, ok, payload) == [fn |-> fn, ok |-> ok, payload |-> payload]

\* the except clause that takes the exception
Handler(exc) ==
    IF exc = "ReadTimeout" THEN "ReadTimeout"
    ELSE IF exc = "ConnectionError" THEN "ConnectionError"
    ELSE "Exception"

M_Init ==
    /\ pc = "get_offer_ids"
    /\ ozon_catalog \in MainCatalogs
    /\ supplier_file \in MainInventories
    /\ offer_ids = <<>> /\ watch_remnants = <<>> /\ stocks = <<>> /\ prices = <<>>
    /\ todo = <<>> /\ calls = <<>> /\ caught = "none"
    /\ BuildRest /\ DivideRest /\ PriceRest /\ OffersRest

\* as if the call were wrapped in its own try/except inside the loop: the
\* message is printed and the run goes on
Raised_and_goes_on(fn, payload, exc) ==
    /\ calls' = Append(calls, Call(fn, FALSE, payload))
    /\ caught' = Handler(exc)
    /\ pc' = pc
    /\ UNCHANGED <<ozon_catalog, supplier_file, offer_ids, watch_remnants,
                   stocks, prices, todo>>

\* the call fn raises exc: the try block is left, the handler prints its
\* message and main returns
Raised(fn, payload, exc) ==
    /\ calls' = Append(calls, Call(fn, FALSE, payload))
    /\ caught' = Handler(exc)
    /\ pc' = "done"
    /\ UNCHANGED <<ozon_catalog, supplier_file, offer_ids, watch_remnants,
                   stocks, prices, todo>>

M_get_offer_ids ==
    /\ pc = "get_offer_ids"
    /\ \/ /\ offer_ids' = ozon_catalog
          /\ calls' = Append(calls, Call("get_offer_ids", TRUE, <<>>))
          /\ pc' = "download_stock"
          /\ UNCHANGED <<ozon_catalog, supplier_file, watch_remnants, stocks,
                         prices, todo, caught>>
       \/ \E exc \in NetErrors : Raised("get_offer_ids", <<>>, exc)
    /\ UNCHANGED <<buildVars, divideVars, priceVars, offersVars>>

M_download_stock ==
    /\ pc = "download_stock"
    /\ \/ /\ watch_remnants' = supplier_file
          /\ calls' = Append(calls, Call("download_stock", TRUE, <<>>))
          /\ pc' = "create_stocks"
          /\ UNCHANGED <<ozon_catalog, supplier_file, offer_ids, stocks,
                         prices, todo, caught>>
       \/ \E exc \in NetErrors : Raised("download_stock", <<>>, exc)
    /\ UNCHANGED <<buildVars, divideVars, priceVars, offersVars>>

\* stocks = create_stocks(watch_remnants, offer_ids) and the list of its
\* chunks; create_stocks works on main's own offer_ids list
M_create_stocks ==
    /\ pc = "create_stocks"
    /\ \E r \in {create_stocks(watch_remnants, offer_ids)} :
          /\ offer_ids' = r.offer_ids
          /\ IF r.raised
             THEN /\ caught' = Handler("ValueError")
                  /\ pc' = "done"
                  /\ UNCHANGED <<stocks, todo>>
             ELSE \E chunks \in {divide(r.stocks, StockChunk)} :
                  /\ stocks' = r.stocks
                  /\ todo' = chunks
                  /\ pc' = IF chunks = <<>> THEN "create_prices" ELSE "update_stocks"
                  /\ UNCHANGED caught
    /\ UNCHANGED <<ozon_catalog, supplier_file, watch_remnants, prices, calls>>
    /\ UNCHANGED <<buildVars, divideVars, priceVars, offersVars>>

\* one iteration of the loop over the stock chunks
M_update_stocks ==
    /\ pc = "update_stocks"
    /\ \/ /\ calls' = Append(calls, Call("update_stocks", TRUE, Head(todo)))
          /\ todo' = Tail(todo)
          /\ pc' = IF Tail(todo) = <<>> THEN "create_prices" ELSE "update_stocks"
          /\ UNCHANGED <<ozon_catalog, supplier_file, offer_ids, watch_remnants,
                         stocks, prices, caught>>
       \/ \E exc \in NetErrors : Raised("update_stocks", Head(todo), exc)
    /\ UNCHANGED <<buildVars, divideVars, priceVars, offersVars>>

\* prices = create_prices(watch_remnants, offer_ids) and the list of its chunks
M_create_prices ==
    /\ pc = "create_prices"
    /\ \E ps \in {create_prices(watch_remnants, offer_ids)} :
       \E chunks \in {divide(ps, MainPriceChunk)} :
          /\ prices' = ps
          /\ todo' = chunks
          /\ pc' = IF chunks = <<>> THEN "done" ELSE "update_price"
    /\ UNCHANGED <<ozon_catalog, supplier_file, offer_ids, watch_remnants,
                   stocks, calls, caught>>
    /\ UNCHANGED <<buildVars, divideVars, priceVars, offersVars>>

\* one iteration of the loop over the price chunks
M_update_price ==
    /\ pc = "update_price"
    /\ \/ /\ calls' = Append(calls, Call("update_price", TRUE, Head(todo)))
          /\ todo' = Tail(todo)
          /\ pc' = IF Tail(todo) = <<>> THEN "done" ELSE "update_price"
          /\ UNCHANGED <<ozon_catalog, supplier_file, offer_ids, watch_remnants,
                         stocks, prices, caught>>
       \/ \E exc \in NetErrors : Raised("update_price", Head(todo), exc)
    /\ UNCHANGED <<buildVars, divideVars, priceVars, offersVars>>

Next ==
    \/ M_get_offer_ids
    \/ M_download_stock
    \/ M_create_stocks
    \/ M_update_stocks
    \/ M_create_prices
    \/ M_update_price

Init == M_Init

Spec == Init /\ [][Next]_vars

(***************************************************************************)
(* SpecOffers: get_offer_ids against a marketplace that answers each page  *)
(* request as it likes.  The k-th product the marketplace hands out has    *)
(* offer_id k; a page holds up to MaxPage products, reports a total up to  *)
(* MaxTotal and its own last product as last_id.  g_log is the sequence of *)
(* requests made: the cursor sent, and what came back.                     *)
(***************************************************************************)
Page(first, n) == [j \in 1..n |-> [offer_id |-> ToString(first + j)]]

G_Init ==
    /\ g_pc = "loop" /\ g_last_id = "" /\ g_product_list = <<>> /\ g_total = 0
    /\ g_log = <<>> /\ g_offer_ids = <<>>
    /\ MainRest /\ BuildRest /\ DivideRest /\ PriceRest

\* the loop's exit test, as if it were total <= len(product_list)
LoopEnds_at_or_below(total, product_list) == total <= Len(product_list)

\* the loop's exit test
LoopEnds(total, product_list) == total = Len(product_list)

\* one iteration of the loop whose request returns, and, when the loop ends
\* with it, the extraction of the offer_ids
G_page ==
    /\ g_pc = "loop"
    /\ Len(g_log) < MaxRequests
    /\ \E n \in 0..MaxPage, total \in 0..MaxTotal :
       \E items \in {Page(Len(g_product_list), n)} :
       \E last_id \in {ToString(Len(g_product_list) + n)} :
          /\ g_log' = Append(g_log, [cursor |-> g_last_id, ok |-> TRUE, items |-> items,
                                     total |-> total, last_id |-> last_id])
          /\ g_product_list' = g_product_list \o items
          /\ g_total' = total
          /\ g_last_id' = last_id
          /\ IF LoopEnds(total, g_product_list \o items)
             THEN /\ g_pc' = "done"
                  /\ g_offer_ids' = [k \in 1..Len(g_product_list \o items) |->
                                        (g_product_list \o items)[k].offer_id]
             ELSE /\ g_pc' = "loop"
                  /\ UNCHANGED g_offer_ids
    /\ UNCHANGED <<mainVars, buildVars, divideVars, priceVars>>

\* an iteration whose request fails: raise_for_status leaves get_offer_ids
G_raise ==
    /\ g_pc = "loop"
    /\ Len(g_log) < MaxRequests
    /\ g_log' = Append(g_log, [cursor |-> g_last_id, ok |-> FALSE, items |-> <<>>,
                               total |-> 0, last_id |-> ""])
    /\ g_pc' = "raised"
    /\ UNCHANGED <<g_last_id, g_product_list, g_total, g_offer_ids>>
    /\ UNCHANGED <<mainVars, buildVars, divideVars, priceVars>>

G_Next == G_page \/ G_raise

SpecOffers == G_Init /\ [][G_Next]_vars

(***************************************************************************)
(* Properties of create_stocks and create_prices (SpecBuild).              *)
(***************************************************************************)
InventoryIds == {b_watch_remnants[i].Kod : i \in 1..Len(b_watch_remnants)}

RowsOf(id) == {i \in 1..Len(b_watch_remnants) : b_watch_remnants[i].Kod = id}

FirstRowOf(id) == CHOOSE i \in RowsOf(id) : \A j \in RowsOf(id) : i <= j

RecordsOf(id, result) == {k \in 1..Len(result) : result[k].offer_id = id}

StocksReturned == {k \in 1..Len(b_log) : b_log[k].fn = "create_stocks" /\ ~b_log[k].raised}

PricesReturned == {k \in 1..Len(b_log) : b_log[k].fn = "create_prices"}

\* the quantity policy of the data model, tabulated for the counts of the inventories
PolicyStock(count) ==
    CASE count = <<">", "1", "0">> -> 100
      [] count = <<"1">> -> 0
      [] count = <<"3">> -> 3
      [] count = <<"2", "5">> -> 25

\* C1: whenever create_stocks returns for a duplicate-free offer_ids list,
\* its result holds exactly one stock record for every identifier of the
\* list, and the record of an identifier that no inventory row mentions has
\* quantity 0.
C1_OneRecordPerKnownId ==
    \A k \in StocksReturned :
        NoDuplicates(b_log[k].ids) =>
            \A id \in Range(b_log[k].ids) :
                /\ Cardinality(RecordsOf(id, b_log[k].result)) = 1
                /\ id \notin InventoryIds =>
                      \A r \in RecordsOf(id, b_log[k].result) : b_log[k].result[r].stock = 0

\* C1 witness: create_stocks has returned for a list with an identifier the
\* inventory mentions twice and an identifier it does not mention.
C1_Witness ==
    \E k \in StocksReturned :
        /\ \E id \in Range(b_log[k].ids) : Cardinality(RowsOf(id)) = 2
        /\ \E id \in Range(b_log[k].ids) : id \notin InventoryIds

\* C3 (as claimed): after create_stocks returns, the caller's offer_ids list
\* holds the elements it held before the call, and two calls of the same
\* builder on the same inventory and list return identical records.
C3_CallerListKept ==
    /\ \A k \in 1..Len(b_log) :
          b_log[k].fn = "create_stocks" =>
              LET after == IF k = Len(b_log) THEN b_offer_ids ELSE b_log[k + 1].ids
              IN \A id \in Range(CatalogOrder) : Count(id, after) = Count(id, b_log[k].ids)
    /\ \A j, k \in 1..Len(b_log) :
          b_log[j].fn = b_log[k].fn /\ ~b_log[j].raised /\ ~b_log[k].raised
              => b_log[j].result = b_log[k].result

\* C4: when create_stocks returns, every inventory row that is reached with
\* its identifier in offer_ids has its record with the quantity of the
\* policy (">10" gives 100, "1" gives 0, any other count its integer value);
\* for the inventory [A: ">10", B: "1", C: "3"] and the offer identifiers
\* A, B, C, D the result holds 100 for A, 0 for B, 3 for C and 0 for D.
C4_QuantityPolicy ==
    \A k \in StocksReturned :
        /\ \A id \in Range(b_log[k].ids) \cap InventoryIds :
              \A r \in RecordsOf(id, b_log[k].result) :
                  b_log[k].result[r].stock
                      = PolicyStock(b_watch_remnants[FirstRowOf(id)].Kolichestvo)
        /\ (b_watch_remnants = ExampleInventory /\ b_log[k].ids = CatalogOrder) =>
              b_log[k].result = <<[offer_id |-> "A", stock |-> 100],
                                  [offer_id |-> "B", stock |-> 0],
                                  [offer_id |-> "C", stock |-> 3],
                                  [offer_id |-> "D", stock |-> 0]>>

\* C4 witness: create_stocks has returned for the example of the claim.
C4_Witness ==
    \E k \in StocksReturned :
        b_watch_remnants = ExampleInventory /\ b_log[k].ids = CatalogOrder

RubAndZero(rec) == rec.currency_code = "RUB" /\ rec.old_price = "0"

\* C5 (as claimed): create_prices returns no record for an identifier that
\* is not in the inventory and exactly one record, with currency_code "RUB"
\* and old_price "0", for each identifier in both the inventory and offer_ids.
C5_OneRecordPerId ==
    \A k \in PricesReturned :
        \A id \in Range(CatalogOrder) :
            /\ id \notin InventoryIds => RecordsOf(id, b_log[k].result) = {}
            /\ (id \in InventoryIds /\ id \in Range(b_log[k].ids)) =>
                  /\ Cardinality(RecordsOf(id, b_log[k].result)) = 1
                  /\ \A r \in RecordsOf(id, b_log[k].result) : RubAndZero(b_log[k].result[r])

\* C5 (amended): create_prices returns no record for an identifier that is
\* not in the inventory or not in offer_ids, and for an identifier of
\* offer_ids exactly one record, with currency_code "RUB" and old_price "0",
\* per inventory row that carries it.
C5_OneRecordPerRow ==
    \A k \in PricesReturned :
        \A id \in Range(CatalogOrder) :
            /\ Cardinality(RecordsOf(id, b_log[k].result))
                  = IF id \in Range(b_log[k].ids) THEN Cardinality(RowsOf(id)) ELSE 0
            /\ \A r \in RecordsOf(id, b_log[k].result) : RubAndZero(b_log[k].result[r])

\* C5 witness: create_prices has returned for an inventory with two rows of
\* one identifier of offer_ids.
C5_Witness ==
    \E k \in PricesReturned :
        \E id \in Range(b_log[k].ids) :
            Cardinality(RowsOf(id)) = 2 /\ Cardinality(RecordsOf(id, b_log[k].result)) = 2

C7_EmptyYieldsOneEmptyChunk ==
    (d_pc = "done" /\ d_lst = <<>>) => d_chunks = << <<>> >>

(***************************************************************************)
(* Properties of price_conversion (SpecPrice).                             *)
(***************************************************************************)
\* C8 (as claimed): price_conversion returns a string of digits, "5990" for
\* "5'990.00 rub." and "12345" for "12 345,00 rub.".
C8_DocstringExamples ==
    p_pc = "done" =>
        /\ \A i \in 1..Len(p_result) : p_result[i] \in Digit
        /\ p_price = Price1 => p_result = <<"5", "9", "9", "0">>
        /\ p_price = Price2 => p_result = <<"1", "2", "3", "4", "5">>

(***************************************************************************)
(* Properties of main (Spec).                                              *)
(***************************************************************************)
CallsOf(fn) == SelectSeq(calls, LAMBDA c : c.fn = fn)

PayloadSizes(fn) == [k \in 1..Len(CallsOf(fn)) |-> Len(CallsOf(fn)[k].payload)]

Uploaded(fn) == Concat([k \in 1..Len(CallsOf(fn)) |-> CallsOf(fn)[k].payload])

\* every row of the supplier's file is the one row of an identifier of the
\* catalogue, and the catalogue lists these identifiers once and no other
AllRowsMatch ==
    /\ NoDuplicates(ozon_catalog)
    /\ NoDuplicates([i \in 1..Len(supplier_file) |-> supplier_file[i].Kod])
    /\ Range(ozon_catalog) = {supplier_file[i].Kod : i \in 1..Len(supplier_file)}

\* C2 (as claimed): a run of main that ends without an exception on N rows
\* that all match has made ceil(N/100) update_stocks calls and ceil(N/900)
\* update_price calls carrying one price record per row; for N = 1500 these
\* are 15 batches of 100 and then the batches of 900 and 600.
C2_BatchesOfMain ==
    (pc = "done" /\ caught = "none" /\ AllRowsMatch) =>
        LET N == Len(supplier_file) IN
        /\ Len(CallsOf("update_stocks")) = CeilDiv(N, 100)
        /\ Len(CallsOf("update_price")) = CeilDiv(N, 900)
        /\ Len(Uploaded("update_price")) = N
        /\ N = 1500 =>
              /\ PayloadSizes("update_stocks") = [k \in 1..15 |-> 100]
              /\ PayloadSizes("update_price") = <<900, 600>>

Phase(fn) ==
    CASE fn = "get_offer_ids" -> 1
      [] fn = "download_stock" -> 2
      [] fn = "update_stocks" -> 3
      [] fn = "update_price" -> 4

IsPrefix(s, t) == Len(s) <= Len(t) /\ SubSeq(t, 1, Len(s)) = s

\* the calls of fn so far carry the first chunks of list, in order
SentInOrder(fn, list, n) ==
    LET sent == CallsOf(fn)
        chunks == divide(list, n)
    IN /\ Len(sent) <= Len(chunks)
       /\ \A k \in 1..Len(sent) : sent[k].payload = chunks[k]

OrderedAndAborting ==
    /\ \A i \in 1..Len(calls) :
          /\ Phase(calls[i].fn) <= i
          /\ i <= 2 => Phase(calls[i].fn) = i
          /\ i < Len(calls) =>
                /\ calls[i].ok
                /\ Phase(calls[i].fn) <= Phase(calls[i + 1].fn)
    /\ SentInOrder("update_stocks", stocks, 100)
    /\ SentInOrder("update_price", prices, 900)
    /\ (calls # <<>> /\ ~calls[Len(calls)].ok) => caught # "none"
    /\ caught # "none" => pc = "done"

\* C9: main calls get_offer_ids, then download_stock, then update_stocks on
\* the stock chunks in order, then update_price on the price chunks in order;
\* a call that raises is the last call of the run (no later call, no retry),
\* main then ends by way of a handler, and what was sent before stays sent.
C9_AbortsOnFirstFailure ==
    /\ []OrderedAndAborting
    /\ [][IsPrefix(calls, calls') /\ (pc = "done" => pc' = "done")]_vars

\* C9 witness: the upload of the second price chunk raised after the stock
\* chunks and the first price chunk had been uploaded.
C9_Witness ==
    /\ pc = "done" /\ caught # "none"
    /\ Len(CallsOf("update_stocks")) >= 2
    /\ Len(CallsOf("update_price")) = 2
    /\ CallsOf("update_price")[1].ok /\ ~CallsOf("update_price")[2].ok

(***************************************************************************)
(* Properties of get_offer_ids (SpecOffers).                               *)
(***************************************************************************)
\* the items of the first k pages
Fetched(k) == Concat([j \in 1..k |-> g_log[j].items])

\* C10: each request carries the last_id of the page before it ("" at
\* first); get_offer_ids has returned exactly when the last page reported a
\* total equal to the number of items accumulated with it, and no page
\* before did; it returns the offer_id of every accumulated item in fetch
\* order.  While no page reports such a total (as when the count has
\* passed the total) the loop goes on.
C10_PagingUntilTotalMet ==
    /\ \A k \in 1..Len(g_log) :
          /\ g_log[k].cursor = IF k = 1 THEN "" ELSE g_log[k - 1].last_id
          /\ k < Len(g_log) => g_log[k].ok /\ g_log[k].total # Len(Fetched(k))
    /\ g_pc = "done" <=>
          /\ g_log # <<>>
          /\ g_log[Len(g_log)].ok
          /\ g_log[Len(g_log)].total = Len(Fetched(Len(g_log)))
    /\ g_pc = "done" =>
          g_offer_ids = [k \in 1..Len(Fetched(Len(g_log))) |->
                            Fetched(Len(g_log))[k].offer_id]
    /\ g_pc = "loop" => g_product_list = Fetched(Len(g_log))

\* C10 witness: the first page held more items than the total it reported,
\* the loop went on, and a later page reported the accumulated count.
C10_Witness ==
    /\ g_pc = "done" /\ Len(g_log) >= 2
    /\ g_log[1].total < Len(g_log[1].items)
    /\ Len(g_offer_ids) >= 2

====
